---- MODULE Spec2Model ----
(***************************************************************************)
(* Input-arbitration policies of metadrive/policy/manual_control_policy.py *)
(* ManualControlPolicy, TakeoverPolicy, TakeoverPolicyWithoutBrake and     *)
(* PHIPolicy, one policy instance attached to the agent Self.              *)
(*                                                                         *)
(* Channel values are fixed-point integers, in thousandths: 1.0 is 1000,   *)
(* 0.01 is 10, 0.025 is 25.  An action is a pair <<steering, throttle>>.   *)
(***************************************************************************)
EXTENDS Integers, Sequences, FiniteSets, TLC

(***************************************************************************)
(* Program constants.                                                      *)
(***************************************************************************)
\* JOYSTICK_DEADZONE = 0.025
JOYSTICK_DEADZONE == 25
\* the literal 0.01 of the keyboard branch of TakeoverPolicy.act
KEYBOARD_DEADZONE == 10
\* PHIPolicy.takeover_steps = 10
takeover_steps == 10
\* the clip bounds -1.0 and 1.0
ClipBound == 1000

(***************************************************************************)
(* Bounds of the model.                                                    *)
(***************************************************************************)
\* how many buttons, paddles or keys are held in one device snapshot
MaxPressed == 1

(***************************************************************************)
(* Input domains.                                                          *)
(***************************************************************************)
\* the agent the policy instance belongs to, and another agent
Self == "agent0"
Agents == {"agent0", "agent1"}
\* engine.current_track_agent when no agent is tracked (None)
NoAgent == "None"

PolicyClasses ==
    {"ManualControlPolicy", "TakeoverPolicy", "TakeoverPolicyWithoutBrake", "PHIPolicy"}

\* config["controller"] values used to construct the policies
ControllerNames == {"keyboard", "xbox", "wheel"}

\* raw actions a device can report: sums of 0.01, 0.02 and 0.025, a pair of
\* opposite signs, and two whose steering leaves [-1, 1] (the makeup
\* factors of the joystick and wheel drivers allow it)
DevActions ==
    { <<5, 5>>, <<10, 10>>, <<15, 10>>, <<500, -500>>, <<-1500, -700>>, <<1500, 300>> }

\* bare external actions handed to env.step: one inside the action space,
\* one outside it
ExtActions == { <<300, -400>>, <<2000, -1500>> }

\* actions the expert can return
ExpertActions == { <<100, 200>>, <<-250, 1000>> }

\* the per-tick external record of PHIPolicy: a bare action (extra "none") or
\* a dict {action, extra}
ExtRecords ==
    { [action |-> a, extra |-> e] : a \in ExtActions, e \in {"none", "False", "True"} }
BareRecords == { r \in ExtRecords : r.extra = "none" }

\* the intent flags each device class exposes
Flags(kind) ==
    CASE kind = "KeyboardController" -> {"takeover"}
      [] kind = "XboxController" -> {"button_a", "button_b", "button_x", "button_y"}
      [] kind = "SteeringWheelController" -> {"left_shift_paddle", "right_shift_paddle"}
      [] OTHER -> {}

\* the snapshots process_input can leave on a device of class kind
Snapshots(kind) ==
    { [action |-> a, pressed |-> p] :
        a \in DevActions,
        p \in { q \in SUBSET Flags(kind) : Cardinality(q) <= MaxPressed } }

VARIABLES
    policy,                      \* the class of the policy instance
    config,                      \* engine.global_config
    enable_expert,               \* ManualControlPolicy.enable_expert
    controller,                  \* self.controller: a device class, "None", or "unset"
    current_track_agent,         \* engine.current_track_agent
    expert_takeover,             \* agent -> its expert_takeover flag
    main_camera,                 \* "None", "main" or "bird_view"
    takeover,                    \* TakeoverPolicy.takeover
    current_takeover_last_steps, \* PHIPolicy.current_takeover_last_steps
    action_info,                 \* BasePolicy.action_info
    last,                        \* the last call: its inputs and its outcome
    np_random,                   \* the state of numpy's global generator
    own_random                   \* the state of a generator only this policy draws from

vars == << policy, config, enable_expert, controller, current_track_agent,
           expert_takeover, main_camera, takeover, current_takeover_last_steps,
           action_info, last, np_random, own_random >>

generators == << np_random, own_random >>

Abs(x) == IF x < 0 THEN -x ELSE x

\* sum(expert_action)
Sum(a) == a[1] + a[2]

\* metadrive.utils.math.clip
clip(a, low, high) == IF a < low THEN low ELSE IF a > high THEN high ELSE a

\* [clip(to_process[i], -1.0, 1.0) for i in range(len(to_process))]
ClipAction(a) == << clip(a[1], -ClipBound, ClipBound), clip(a[2], -ClipBound, ClipBound) >>

InRange(a) ==
    /\ -ClipBound <= a[1] /\ a[1] <= ClipBound
    /\ -ClipBound <= a[2] /\ a[2] <= ClipBound

\* get_input_space().contains(x): the continuous space is the box [-1, 1]^2,
\* and a dict is no member of a box
InputSpaceContains(ext) == ext.extra = "none" /\ InRange(ext.action)

(***************************************************************************)
(* Construction.                                                           *)
(***************************************************************************)
\* a controller name as config["controller"] spells it: a sequence of
\* characters.  The spellings the code compares with (lines 27, 29, 32) ...
Word_keyboard == << "k", "e", "y", "b", "o", "a", "r", "d" >>
Word_xboxcontroller ==
    << "x", "b", "o", "x", "c", "o", "n", "t", "r", "o", "l", "l", "e", "r" >>
Word_xbox == << "x", "b", "o", "x" >>
Word_gamepad == << "g", "a", "m", "e", "p", "a", "d" >>
Word_joystick == << "j", "o", "y", "s", "t", "i", "c", "k" >>
Word_steering_wheel ==
    << "s", "t", "e", "e", "r", "i", "n", "g", "_", "w", "h", "e", "e", "l" >>
Word_wheel == << "w", "h", "e", "e", "l" >>
\* ... and names it does not know: a misspelt one, and str(None)
Word_joypad2 == << "j", "o", "y", "p", "a", "d", "2" >>
Word_none == << "n", "o", "n", "e" >>

Words ==
    { Word_keyboard, Word_xboxcontroller, Word_xbox, Word_gamepad, Word_joystick,
      Word_steering_wheel, Word_wheel, Word_joypad2, Word_none }

UpperCase ==
    << "A", "B", "C", "D", "E", "F", "G", "H", "I", "J", "K", "L", "M",
       "N", "O", "P", "Q", "R", "S", "T", "U", "V", "W", "X", "Y", "Z" >>
LowerCase ==
    << "a", "b", "c", "d", "e", "f", "g", "h", "i", "j", "k", "l", "m",
       "n", "o", "p", "q", "r", "s", "t", "u", "v", "w", "x", "y", "z" >>

\* the capital of a small letter; every other character is left alone
UpperChar(c) ==
    IF \E i \in DOMAIN LowerCase : LowerCase[i] = c
    THEN UpperCase[CHOOSE i \in DOMAIN LowerCase : LowerCase[i] = c]
    ELSE c

\* the ways a word is capitalised in a configuration: as it is, its first
\* letter, the first letter of its second half, or every letter
CaseModes == {"lower", "Capitalized", "camelCase", "UPPER"}
Recase(word, mode) ==
    [ i \in DOMAIN word |->
        IF \/ mode = "UPPER"
           \/ mode = "Capitalized" /\ i = 1
           \/ mode = "camelCase" /\ i = Len(word) \div 2 + 1
        THEN UpperChar(word[i])
        ELSE word[i] ]

\* the values of config["controller"]
RawNames == { Recase(w, mode) : w \in Words, mode \in CaseModes }

\* str.lower on one character
LowerChar(c) ==
    IF \E i \in DOMAIN UpperCase : UpperCase[i] = c
    THEN LowerCase[CHOOSE i \in DOMAIN UpperCase : UpperCase[i] = c]
    ELSE c

\* line 26, str(controller_name).lower(): the lower-cased string
RECURSIVE lower(_)
lower(name) ==
    IF name = << >> THEN "" ELSE LowerChar(Head(name)) \o lower(Tail(name))

\* an unknown name gets the keyboard instead of the error
get_controller_default(controller_name) ==
    IF controller_name \in {"steering_wheel", "wheel"} THEN "SteeringWheelController"
    ELSE IF controller_name \in {"xboxcontroller", "xbox", "gamepad", "joystick"}
         THEN "XboxController"
         ELSE "KeyboardController"

\* get_controller: the device class for a (lower-cased) controller name
get_controller(controller_name) ==
    IF controller_name = "keyboard" THEN "KeyboardController"
    ELSE IF controller_name \in {"xboxController", "xboxcontroller", "xbox", "gamepad",
                                 "joystick", "steering_wheel", "wheel"}
         THEN IF controller_name \in {"steering_wheel", "wheel"}
              THEN "SteeringWheelController"
              ELSE "XboxController"
         ELSE "ValueError"

\* ManualControlPolicy.__init__: self.controller
ManualControlPolicy_init(cfg) ==
    IF cfg.manual_control THEN get_controller(cfg.controller) ELSE "None"

\* TakeoverPolicy.__init__: self.controller, an attribute that is never set
\* ("unset") unless manual_control and use_render are both on
TakeoverPolicy_init(cfg) ==
    IF cfg.manual_control /\ cfg.use_render THEN get_controller(cfg.controller) ELSE "unset"

\* the configurations: use_render is read only under manual_control (lines
\* 54, 57, 110), so it is left off where it is not read
Configs ==
    { c \in [manual_control : BOOLEAN, use_render : BOOLEAN,
             controller : ControllerNames, action_check : BOOLEAN] :
        ~c.manual_control => ~c.use_render }

\* the classes whose act reads the class of the device (isinstance, lines 119-128)
ReadsDeviceClass == {"TakeoverPolicy", "TakeoverPolicyWithoutBrake"}

\* the constructor calls get_controller (lines 64-65, 110-111)
ConstructsDevice(class, cfg) ==
    IF class = "ManualControlPolicy"
    THEN cfg.manual_control
    ELSE cfg.manual_control /\ cfg.use_render

\* the controller names a policy of the class is constructed with: the name
\* is read only when a device is constructed, and PHIPolicy.act never reads
\* the device's class, so one name stands for all in those cases
NamesFor(class, cfg) ==
    IF ConstructsDevice(class, cfg) /\ class # "PHIPolicy"
    THEN ControllerNames
    ELSE {"keyboard"}

NoExt == [action |-> <<>>, extra |-> "none"]

\* no call of the policy has happened since the engine state last changed
NoCall ==
    [op |-> "none", result |-> "none", action |-> <<>>, source |-> "none",
     dev |-> <<>>, pressed |-> {}, ext |-> NoExt,
     key |-> FALSE, expert_error |-> FALSE, draw |-> FALSE,
     device |-> "none", available |-> TRUE, warning |-> FALSE]

\* the state after the construction of a policy of one of the classes
InitOf(classes) ==
    /\ policy \in classes
    /\ config \in Configs
    /\ config.controller \in NamesFor(policy, config)
    /\ enable_expert \in (IF policy = "ManualControlPolicy" THEN BOOLEAN ELSE {TRUE})
    /\ controller = IF policy = "ManualControlPolicy"
                    THEN ManualControlPolicy_init(config)
                    ELSE TakeoverPolicy_init(config)
    /\ current_track_agent \in Agents \cup {NoAgent}
    /\ expert_takeover = [a \in Agents |-> FALSE]
    /\ main_camera \in {"None", "main", "bird_view"}
    /\ takeover = FALSE
    /\ current_takeover_last_steps = 0
    /\ action_info = [action |-> <<>>, manual_control |-> "unset"]
    /\ last = NoCall
    /\ np_random = 0
    /\ own_random = 0

Init == InitOf(PolicyClasses)

(***************************************************************************)
(* EnvInputPolicy.act, the superclass's act: validate the external action  *)
(* when action_check is on, clip it and record it in action_info.          *)
(***************************************************************************)
EnvInputPolicy_act(ext, info) ==
    IF config.action_check /\ ~InputSpaceContains(ext)
    THEN [result |-> "AssertionError", action |-> <<>>, info |-> info]
    ELSE LET a == ClipAction(ext.action)
         IN  [result |-> "return", action |-> a, info |-> [info EXCEPT !.action = a]]

(***************************************************************************)
(* ManualControlPolicy.                                                    *)
(***************************************************************************)
\* the flag is set instead of flipped
toggle_takeover_set(track, et) ==
    IF track # NoAgent THEN [et EXCEPT ![track] = TRUE] ELSE et

\* toggle_takeover: flip the tracked agent's flag, if an agent is tracked
toggle_takeover(track, et) ==
    IF track # NoAgent THEN [et EXCEPT ![track] = ~et[track]] ELSE et

\* line 86: the device has authority
ManualEligible ==
    LET is_track_vehicle == Self = current_track_agent
        not_in_native_bev == main_camera = "None" \/ main_camera # "bird_view"
    IN  config.manual_control /\ is_track_vehicle /\ not_in_native_bev

\* lines 84-94 of act: the action of the source that has authority, and the
\* ActionInfo record
ManualAuthority(dev, ext) ==
    IF ManualEligible
    THEN [result |-> "return", action |-> dev, source |-> "device",
          dev |-> dev, ext |-> NoExt,
          info |-> [action |-> dev, manual_control |-> "True"]]
    ELSE LET r == EnvInputPolicy_act(ext, action_info)
         IN  IF r.result = "return"
             THEN [result |-> "return", action |-> r.action, source |-> "agent",
                   dev |-> <<>>, ext |-> ext,
                   info |-> [action |-> r.action, manual_control |-> "False"]]
             ELSE [result |-> r.result, action |-> <<>>, source |-> "none",
                   dev |-> <<>>, ext |-> ext, info |-> action_info]

\* the expert is consulted: line 77
ExpertConsulted(et) == et[current_track_agent] /\ enable_expert

\* the except clause swallows the error and leaves the flags alone
ExpertFailed_ignore(track, et) == et

\* lines 79-82: the except clause calls toggle_takeover
ExpertFailed(track, et) == toggle_takeover(track, et)

\* lines 79-94: the rest of the tick once the expert has not returned;
\* key tells that process_others invoked the callback, failed that the
\* expert raised ValueError or AssertionError
ManualFallthrough(et, key, failed) ==
    \E dev \in (IF ManualEligible THEN DevActions ELSE {<<>>}),
       ext \in (IF ManualEligible THEN {NoExt} ELSE BareRecords) :
        LET r == ManualAuthority(dev, ext)
        IN  /\ last' = [NoCall EXCEPT !.op = "act", !.result = r.result,
                                      !.action = r.action, !.source = r.source,
                                      !.dev = r.dev, !.ext = r.ext,
                                      !.key = key, !.expert_error = failed]
            /\ expert_takeover' =
                   IF failed THEN ExpertFailed(current_track_agent, et) ELSE et
            /\ action_info' = r.info

\* ManualControlPolicy.act(agent_id) for the policy's own agent.
\* key: process_others invokes the takeover callback
ManualControlPolicy_act ==
    /\ policy = "ManualControlPolicy"
    /\ IF controller = "None"
       THEN \* line 74: None has no process_others
            /\ last' = [NoCall EXCEPT !.op = "act", !.result = "AttributeError"]
            /\ UNCHANGED << expert_takeover, action_info >>
       ELSE \E key \in BOOLEAN :
            LET et1 == IF key THEN toggle_takeover(current_track_agent, expert_takeover)
                       ELSE expert_takeover
            IN  IF current_track_agent = NoAgent
                THEN \* line 77: None has no expert_takeover
                     /\ last' = [NoCall EXCEPT !.op = "act", !.result = "AttributeError",
                                               !.key = key]
                     /\ expert_takeover' = et1
                     /\ UNCHANGED action_info
                ELSE IF ExpertConsulted(et1)
                THEN \/ \E expert \in ExpertActions :
                          \* line 78: the expert's action is returned
                          /\ last' = [NoCall EXCEPT !.op = "act", !.result = "return",
                                                    !.action = expert, !.source = "expert",
                                                    !.key = key]
                          /\ expert_takeover' = et1
                          /\ UNCHANGED action_info
                     \/ \* lines 79-82: the expert raises
                        ManualFallthrough(et1, key, TRUE)
                ELSE ManualFallthrough(et1, key, FALSE)
    /\ UNCHANGED << generators, policy, config, enable_expert, controller, current_track_agent,
                    main_camera, takeover, current_takeover_last_steps >>

\* the "t" key event the constructor registers with the engine when
\* manual_control and use_render are on: it calls toggle_takeover
ToggleKey ==
    /\ policy = "ManualControlPolicy"
    /\ config.manual_control /\ config.use_render
    /\ expert_takeover' = toggle_takeover(current_track_agent, expert_takeover)
    /\ last' = [NoCall EXCEPT !.op = "toggle_takeover"]
    /\ UNCHANGED << generators, policy, config, enable_expert, controller, current_track_agent,
                    main_camera, takeover, current_takeover_last_steps, action_info >>

(***************************************************************************)
(* TakeoverPolicy.                                                         *)
(***************************************************************************)
\* the steering wheel takes over by magnitude as the keyboard does
WheelIntent_magnitude(snap) ==
    \/ "left_shift_paddle" \in snap.pressed \/ "right_shift_paddle" \in snap.pressed
    \/ Abs(Sum(snap.action)) > KEYBOARD_DEADZONE

\* line 119-120: either paddle of the steering wheel
WheelIntent(snap) ==
    "left_shift_paddle" \in snap.pressed \/ "right_shift_paddle" \in snap.pressed

\* the keyboard branch with the joystick's deadzone
KeyboardIntent_joystick(snap) ==
    "takeover" \in snap.pressed \/ Abs(Sum(snap.action)) > JOYSTICK_DEADZONE

\* line 124-125: the keyboard's takeover flag, or abs(sum(expert_action)) > 0.01
KeyboardIntent(snap) ==
    "takeover" \in snap.pressed \/ Abs(Sum(snap.action)) > KEYBOARD_DEADZONE

\* the gamepad branch with >= instead of >
XboxIntent_inclusive(snap) ==
    \/ "button_a" \in snap.pressed
    \/ "button_b" \in snap.pressed
    \/ "button_x" \in snap.pressed
    \/ "button_y" \in snap.pressed
    \/ Abs(Sum(snap.action)) >= JOYSTICK_DEADZONE

\* line 128-131: a button of the gamepad, or abs(sum(expert_action)) > JOYSTICK_DEADZONE
XboxIntent(snap) ==
    \/ "button_a" \in snap.pressed
    \/ "button_b" \in snap.pressed
    \/ "button_x" \in snap.pressed
    \/ "button_y" \in snap.pressed
    \/ Abs(Sum(snap.action)) > JOYSTICK_DEADZONE

\* lines 119-133: the isinstance chain
DeviceIntent(snap) ==
    IF controller = "SteeringWheelController" /\ WheelIntent(snap) THEN TRUE
    ELSE IF controller = "KeyboardController" /\ KeyboardIntent(snap) THEN TRUE
    ELSE controller = "XboxController" /\ XboxIntent(snap)

NoSnap == [action |-> <<>>, pressed |-> {}]

\* lines 116-117 up to the camera: manual control is on and the agent is tracked
TakeoverGate == config.manual_control /\ Self = current_track_agent

\* line 118 is reached and the device is polled
TakeoverPolls(ext) ==
    /\ EnvInputPolicy_act(ext, action_info).result = "return"
    /\ TakeoverGate
    /\ main_camera = "main"
    /\ controller # "unset"

\* TakeoverPolicy.act: the outcome of one call, given the external action
\* and the snapshot the device reports if it is polled
TakeoverPolicy_act(snap, ext) ==
    LET base == EnvInputPolicy_act(ext, action_info)
        out == [result |-> base.result, action |-> base.action, source |-> "none",
                takeover |-> takeover, info |-> base.info,
                dev |-> <<>>, pressed |-> {}]
    IN  IF base.result # "return" THEN out
        ELSE IF TakeoverGate /\ main_camera = "None"
        THEN \* line 117: None has no is_bird_view_camera
             [out EXCEPT !.result = "AttributeError", !.action = <<>>]
        ELSE IF TakeoverGate /\ main_camera # "bird_view"
        THEN IF controller = "unset"
             THEN \* line 118: the policy has no controller attribute
                  [out EXCEPT !.result = "AttributeError", !.action = <<>>]
             ELSE IF DeviceIntent(snap)
             THEN [out EXCEPT !.action = snap.action, !.source = "device",
                              !.takeover = TRUE,
                              !.dev = snap.action, !.pressed = snap.pressed]
             ELSE [out EXCEPT !.source = "agent", !.takeover = FALSE,
                              !.dev = snap.action, !.pressed = snap.pressed]
        ELSE [out EXCEPT !.source = "agent", !.takeover = FALSE]

\* the outcome of a call, recorded
Recorded(out, ext) ==
    [NoCall EXCEPT !.op = "act", !.result = out.result, !.action = out.action,
                   !.source = out.source, !.dev = out.dev, !.pressed = out.pressed,
                   !.ext = ext]

TakeoverPolicyTick ==
    /\ policy = "TakeoverPolicy"
    /\ \E ext \in BareRecords :
       \E snap \in (IF TakeoverPolls(ext) THEN Snapshots(controller) ELSE {NoSnap}) :
         LET out == TakeoverPolicy_act(snap, ext)
         IN  /\ takeover' = out.takeover
             /\ action_info' = out.info
             /\ last' = Recorded(out, ext)
    /\ UNCHANGED << generators, policy, config, enable_expert, controller, current_track_agent,
                    expert_takeover, main_camera, current_takeover_last_steps >>

(***************************************************************************)
(* TakeoverPolicyWithoutBrake.                                             *)
(***************************************************************************)
\* the brake is kept
DiscardBrake_keep(action) == action

\* lines 146-147 and 199-200: a negative second channel is zeroed
DiscardBrake(action) == IF action[2] < 0 THEN << action[1], 0 >> ELSE action

\* TakeoverPolicyWithoutBrake.act
TakeoverPolicyWithoutBrake_act(snap, ext) ==
    LET out == TakeoverPolicy_act(snap, ext)
    IN  IF out.result = "return" /\ out.takeover
        THEN [out EXCEPT !.action = DiscardBrake(out.action)]
        ELSE out

TakeoverPolicyWithoutBrakeTick ==
    /\ policy = "TakeoverPolicyWithoutBrake"
    /\ \E ext \in BareRecords :
       \E snap \in (IF TakeoverPolls(ext) THEN Snapshots(controller) ELSE {NoSnap}) :
         LET out == TakeoverPolicyWithoutBrake_act(snap, ext)
         IN  /\ takeover' = out.takeover
             /\ action_info' = out.info
             /\ last' = Recorded(out, ext)
    /\ UNCHANGED << generators, policy, config, enable_expert, controller, current_track_agent,
                    expert_takeover, main_camera, current_takeover_last_steps >>

(***************************************************************************)
(* PHIPolicy.                                                              *)
(***************************************************************************)
\* the countdown compared with > instead of >=
Expired_strict == current_takeover_last_steps > takeover_steps

\* lines 180-182: the countdown has run out at the start of the tick
Expired == current_takeover_last_steps >= takeover_steps

\* line 184: the tick begins (or is reset to) AUTONOMOUS
BeginsAutonomous == Expired \/ ~takeover

\* a bare external action starts a takeover as a true extra flag does
PHIDecision_bare(ext, draw) ==
    IF BeginsAutonomous THEN (ext.extra # "False") \/ draw ELSE takeover

\* lines 184-193: takeover after the external record and the draw are read
PHIDecision(ext, draw) ==
    IF BeginsAutonomous THEN (ext.extra = "True") \/ draw ELSE takeover

\* PHIPolicy.act: the outcome of one call.  draw: np.random.rand() < 0.1;
\* dev: the raw action the device reports if it is polled
PHIPolicy_act(ext, draw, dev) ==
    LET steps0 == IF Expired THEN 0 ELSE current_takeover_last_steps
        t == PHIDecision(ext, draw)
        out == [result |-> "return", action |-> <<>>, source |-> "none",
                takeover |-> t, steps |-> steps0, info |-> action_info,
                dev |-> <<>>, pressed |-> {}]
    IN  IF t /\ controller = "unset"
        THEN \* line 197: the policy has no controller attribute
             [out EXCEPT !.result = "AttributeError"]
        ELSE LET action == IF t THEN DiscardBrake(dev) ELSE ext.action
                 steps1 == IF t THEN steps0 + 1 ELSE steps0
                 polled == [out EXCEPT !.steps = steps1,
                                       !.dev = IF t THEN dev ELSE <<>>]
             IN  IF config.action_check /\ ~InputSpaceContains(ext)
                 THEN [polled EXCEPT !.result = "AssertionError"]
                 ELSE [polled EXCEPT !.action = ClipAction(action),
                                     !.source = IF t THEN "device" ELSE "agent",
                                     !.info = [action_info EXCEPT
                                                 !.action = ClipAction(action)]]

\* line 197 is reached and the device is polled
PHIPolls(ext, draw) == PHIDecision(ext, draw) /\ controller # "unset"

\* one call of PHIPolicy.act with the external record ext, whose draw (if
\* the tick begins AUTONOMOUS) fires or not
PHITick(ext, draw) ==
    \E dev \in (IF PHIPolls(ext, draw) THEN DevActions ELSE {<<>>}) :
        LET out == PHIPolicy_act(ext, draw, dev)
        IN  /\ takeover' = out.takeover
            /\ current_takeover_last_steps' = out.steps
            /\ action_info' = out.info
            /\ last' = [Recorded(out, ext) EXCEPT !.draw = draw]

\* a tick whose draw is any of the two outcomes
PHIPolicyTick ==
    /\ policy = "PHIPolicy"
    /\ \E ext \in ExtRecords :
       \E draw \in (IF BeginsAutonomous THEN BOOLEAN ELSE {FALSE}) :
         PHITick(ext, draw)
    /\ UNCHANGED << generators, policy, config, enable_expert, controller,
                    current_track_agent, expert_takeover, main_camera >>

(***************************************************************************)
(* The engine, between ticks.                                              *)
(***************************************************************************)
\* the engine tracks another agent, or none
SwitchTrackAgent ==
    /\ current_track_agent' \in (Agents \cup {NoAgent}) \ {current_track_agent}
    /\ last' = NoCall
    /\ UNCHANGED << generators, policy, config, enable_expert, controller, expert_takeover,
                    main_camera, takeover, current_takeover_last_steps, action_info >>

\* the main camera enters or leaves the bird's-eye view
SwitchCamera ==
    /\ main_camera # "None"
    /\ main_camera' = IF main_camera = "main" THEN "bird_view" ELSE "main"
    /\ last' = NoCall
    /\ UNCHANGED << generators, policy, config, enable_expert, controller, current_track_agent,
                    expert_takeover, takeover, current_takeover_last_steps, action_info >>

Next ==
    \/ ManualControlPolicy_act
    \/ ToggleKey
    \/ TakeoverPolicyTick
    \/ TakeoverPolicyWithoutBrakeTick
    \/ PHIPolicyTick
    \/ SwitchTrackAgent
    \/ SwitchCamera

\* a policy of any of the four classes
Spec == Init /\ [][Next]_vars

\* a ManualControlPolicy
InitManual == InitOf({"ManualControlPolicy"})
NextManual ==
    \/ ManualControlPolicy_act
    \/ ToggleKey
    \/ SwitchTrackAgent
    \/ SwitchCamera
SpecManual == InitManual /\ [][NextManual]_vars

\* a TakeoverPolicy or a TakeoverPolicyWithoutBrake
InitTakeover == InitOf(ReadsDeviceClass)
NextTakeover ==
    \/ TakeoverPolicyTick
    \/ TakeoverPolicyWithoutBrakeTick
    \/ SwitchTrackAgent
    \/ SwitchCamera
SpecTakeover == InitTakeover /\ [][NextTakeover]_vars

\* a PHIPolicy
InitPHI == InitOf({"PHIPolicy"})
NextPHI ==
    \/ PHIPolicyTick
    \/ SwitchTrackAgent
    \/ SwitchCamera
SpecPHI == InitPHI /\ [][NextPHI]_vars

(***************************************************************************)
(* The constructors, as a step: a policy of one of the classes is          *)
(* constructed from a configuration whose controller name is spelt in any  *)
(* case, with the hardware of the gamepad and the steering wheel present   *)
(* or absent.  (pygame_control only chooses how the keyboard is read.)     *)
(***************************************************************************)
\* the device classes whose constructor needs hardware
HardwareDevices == {"XboxController", "SteeringWheelController"}

\* lines 28, 33, 35, 68: the constructor of the device class returns the
\* device, or raises when the hardware it needs is not available
Instantiate(class, available) ==
    IF class \in HardwareDevices /\ ~available THEN "DeviceError" ELSE class

\* get_controller(controller_name, pygame_control), lines 16-39: the device,
\* or the error raised
GetController(controller_name, available) ==
    LET class == get_controller(lower(controller_name))
    IN  IF class = "ValueError"
        THEN [result |-> "ValueError", device |-> "none"]
        ELSE [result |-> Instantiate(class, available), device |-> class]

\* the outcome of a constructor whose get_controller call gave r; fallback
\* tells whether the constructor has the lines 66-68
Constructed(r, fallback) ==
    IF r.result \in {"ValueError", "DeviceError"}
    THEN [result |-> r.result, controller |-> "unset", device |-> r.device,
          warning |-> FALSE]
    ELSE IF fallback /\ r.result = "None"
    THEN [result |-> "return", controller |-> "KeyboardController",
          device |-> "KeyboardController", warning |-> TRUE]
    ELSE [result |-> "return", controller |-> r.result, device |-> r.device,
          warning |-> FALSE]

\* ManualControlPolicy.__init__, lines 49-70
ManualControlPolicy_new(cfg, available) ==
    IF cfg.manual_control
    THEN Constructed(GetController(cfg.controller, available), TRUE)
    ELSE [result |-> "return", controller |-> "None", device |-> "none",
          warning |-> FALSE]

\* TakeoverPolicy.__init__, lines 107-112 (PHIPolicy.__init__ adds the seed)
TakeoverPolicy_new(cfg, available) ==
    IF cfg.manual_control /\ cfg.use_render
    THEN Constructed(GetController(cfg.controller, available), FALSE)
    ELSE [result |-> "return", controller |-> "unset", device |-> "none",
          warning |-> FALSE]

\* the configurations a policy is constructed from
RawConfigs ==
    { c \in [manual_control : BOOLEAN, use_render : BOOLEAN,
             controller : RawNames, action_check : {FALSE}] :
        ~c.manual_control => ~c.use_render }

\* the constructor reaches the constructor of a device that needs hardware
NeedsHardware ==
    /\ ConstructsDevice(policy, config)
    /\ get_controller(lower(config.controller)) \in HardwareDevices

\* before the constructor runs
InitConstruct ==
    /\ policy \in PolicyClasses
    /\ config \in RawConfigs
    /\ enable_expert = TRUE
    /\ controller = "unset"
    /\ current_track_agent = NoAgent
    /\ expert_takeover = [a \in Agents |-> FALSE]
    /\ main_camera = "None"
    /\ takeover = FALSE
    /\ current_takeover_last_steps = 0
    /\ action_info = [action |-> <<>>, manual_control |-> "unset"]
    /\ last = NoCall
    /\ np_random = 0
    /\ own_random = 0

\* the constructor of the policy's class runs
Construct ==
    /\ last.op = "none"
    /\ \E available \in (IF NeedsHardware THEN BOOLEAN ELSE {TRUE}) :
         LET out == IF policy = "ManualControlPolicy"
                    THEN ManualControlPolicy_new(config, available)
                    ELSE TakeoverPolicy_new(config, available)
         IN  /\ controller' = out.controller
             /\ last' = [NoCall EXCEPT !.op = "__init__", !.result = out.result,
                                       !.device = out.device,
                                       !.available = available,
                                       !.warning = out.warning]
    /\ UNCHANGED << generators, policy, config, enable_expert, current_track_agent,
                    expert_takeover, main_camera, takeover,
                    current_takeover_last_steps, action_info >>

NextConstruct == Construct
SpecConstruct == InitConstruct /\ [][NextConstruct]_vars

(***************************************************************************)
(* The random generator.  PHIPolicy.__init__ calls np.random.seed(seed)    *)
(* and act calls np.random.rand(): both act on numpy's global generator,   *)
(* which every PHIPolicy instance of the process shares.  The generator is *)
(* a deterministic function of its seed and of the number of draws since;  *)
(* a linear congruential generator stands for numpy's.  own_random is the  *)
(* state of a generator seeded alike that only this policy draws from.     *)
(* In the other specifications the draw is any Boolean and the generator   *)
(* is left out.                                                            *)
(***************************************************************************)
\* the largest seed a policy is constructed with
MaxSeed == 3
Seeds == 0..MaxSeed

RandModulus == 8
RandMultiplier == 5
RandIncrement == 3

\* np.random.seed(seed): the state of the generator after seeding
RandSeed(seed) == seed % RandModulus

\* the state of the generator after one more draw
RandNext(state) == (RandMultiplier * state + RandIncrement) % RandModulus

\* line 192, np.random.rand() < 0.1, for the draw that left the generator
\* in state: rand() is state / RandModulus
RandFires(state) == state * 10 < RandModulus

\* the external records of the ticks: one action, bare or with the flag
SeedExtRecords == { r \in ExtRecords : InRange(r.action) }

\* a PHIPolicy with its device, just constructed with one of the seeds
InitSeed ==
    /\ policy = "PHIPolicy"
    /\ config \in { c \in Configs : /\ c.manual_control /\ c.use_render
                                     /\ c.controller = "keyboard"
                                     /\ ~c.action_check }
    /\ enable_expert = TRUE
    /\ controller = TakeoverPolicy_init(config)
    /\ current_track_agent = Self
    /\ expert_takeover = [a \in Agents |-> FALSE]
    /\ main_camera = "main"
    /\ takeover = FALSE
    /\ current_takeover_last_steps = 0
    /\ action_info = [action |-> <<>>, manual_control |-> "unset"]
    /\ last = NoCall
    /\ \E seed \in Seeds :
          /\ np_random = RandSeed(seed)
          /\ own_random = RandSeed(seed)

\* PHIPolicy.act with the draw taken from the global generator
PHISeededTick ==
    /\ policy = "PHIPolicy"
    /\ LET draws == BeginsAutonomous
           drawn == RandNext(np_random)
       IN  /\ \E ext \in SeedExtRecords : PHITick(ext, draws /\ RandFires(drawn))
           /\ np_random' = IF draws THEN drawn ELSE np_random
           /\ own_random' = IF draws THEN RandNext(own_random) ELSE own_random
    /\ UNCHANGED << policy, config, enable_expert, controller,
                    current_track_agent, expert_takeover, main_camera >>

\* line 167 in the constructor of another PHIPolicy instance
OtherPolicySeeds ==
    /\ \E seed \in Seeds : np_random' = RandSeed(seed)
    /\ last' = NoCall
    /\ UNCHANGED << own_random, policy, config, enable_expert, controller,
                    current_track_agent, expert_takeover, main_camera, takeover,
                    current_takeover_last_steps, action_info >>

\* line 192 in a tick of another PHIPolicy instance that begins AUTONOMOUS
OtherPolicyDraws ==
    /\ np_random' = RandNext(np_random)
    /\ last' = NoCall
    /\ UNCHANGED << own_random, policy, config, enable_expert, controller,
                    current_track_agent, expert_takeover, main_camera, takeover,
                    current_takeover_last_steps, action_info >>

NextSeed ==
    \/ PHISeededTick
    \/ OtherPolicySeeds
    \/ OtherPolicyDraws
SpecSeed == InitSeed /\ [][NextSeed]_vars

(***************************************************************************)
(* Properties.                                                             *)
(***************************************************************************)
\* the step is a call of act
ActStep == last'.op = "act"
\* the last call was act and it polled the device
Polled == last.op = "act" /\ last.dev # <<>>
\* sum of the absolute values of the two channels
SumAbs(a) == Abs(a[1]) + Abs(a[2])

\* C1, as claimed: in PHIPolicy, once MANUAL is entered takeover stays true
\* until takeover_steps ticks are counted, whatever the extra flag and the
\* draw are, and the tick after the last of them ends AUTONOMOUS.
C1_RevertsAfterSteps ==
    [][(policy = "PHIPolicy" /\ ActStep /\ takeover) =>
         IF current_takeover_last_steps < takeover_steps
         THEN takeover'
         ELSE ~takeover']_vars

\* C1, amended: in PHIPolicy a MANUAL period lasts until the counter of
\* device-polled ticks reaches takeover_steps: the tick that enters MANUAL
\* counts one, each later tick keeps takeover true whatever the extra flag
\* and the draw are and counts one if it polls the device, and the tick
\* after the counter reached takeover_steps starts from AUTONOMOUS with the
\* counter at 0, so it ends MANUAL again (counter 1) exactly when its own
\* extra flag or draw fires.
C1_MinimumDuration ==
    [][(policy = "PHIPolicy" /\ ActStep) =>
         LET polled == last'.dev # <<>>
             fires == last'.ext.extra = "True" \/ last'.draw
             fresh == /\ takeover' = fires
                      /\ current_takeover_last_steps' = IF fires /\ polled THEN 1 ELSE 0
         IN  IF takeover /\ current_takeover_last_steps < takeover_steps
             THEN /\ takeover'
                  /\ current_takeover_last_steps' =
                        current_takeover_last_steps + (IF polled THEN 1 ELSE 0)
             ELSE fresh]_vars

\* C1, witness: the last tick of a MANUAL period has returned
C1_Witness ==
    /\ policy = "PHIPolicy" /\ last.op = "act" /\ last.result = "return"
    /\ takeover /\ current_takeover_last_steps = takeover_steps

\* C2, as claimed: whatever the class and the inputs, both channels of the
\* action act returns are within [-1, 1].
C2_ReturnedInRange ==
    (last.op = "act" /\ last.result = "return") => InRange(last.action)

\* C3, as claimed: in TakeoverPolicy.act with a Keyboard or Gamepad that is
\* polled, a raw action whose absolute values sum to more than the device's
\* threshold makes the tick MANUAL and the raw action is returned.
C3_MagnitudeTakesOver ==
    (/\ policy = "TakeoverPolicy" /\ Polled
     /\ \/ controller = "KeyboardController" /\ SumAbs(last.dev) > KEYBOARD_DEADZONE
        \/ controller = "XboxController" /\ SumAbs(last.dev) > JOYSTICK_DEADZONE)
    => (takeover /\ last.result = "return" /\ last.action = last.dev)

\* the case of C4: a polled Keyboard, takeover flag unset, raw action
\* summing to 0.02
C4_Case ==
    /\ policy = "TakeoverPolicy" /\ Polled
    /\ config.manual_control /\ controller = "KeyboardController"
    /\ "takeover" \notin last.pressed
    /\ Sum(last.dev) = 20

\* C4, as claimed: that tick leaves the arbiter AUTONOMOUS (takeover false,
\* the agent's own action returned) and the manual_control info flag false.
C4_StaysAutonomous ==
    C4_Case => /\ ~takeover
               /\ last.source = "agent"
               /\ action_info.manual_control = "False"

\* C4, amended: that tick makes the arbiter MANUAL (takeover true, the
\* device's raw action returned), 0.02 being above the keyboard's 0.01; the
\* manual_control info flag is not set, TakeoverPolicy.act never writes it.
C4_TakesOver ==
    C4_Case => /\ takeover
               /\ last.result = "return" /\ last.source = "device"
               /\ last.action = last.dev
               /\ action_info.manual_control = "unset"

\* C4, witness
C4_Witness == C4_Case /\ last.dev = <<10, 10>>

\* the case of C5: a polled Gamepad, raw action within the deadzone, none
\* of the four buttons pressed
C5_Case ==
    /\ policy = "TakeoverPolicy" /\ Polled
    /\ controller = "XboxController"
    /\ SumAbs(last.dev) <= JOYSTICK_DEADZONE
    /\ last.pressed \cap {"button_a", "button_b", "button_x", "button_y"} = {}

\* C5: a Gamepad tick within the deadzone and with no button pressed does
\* not set takeover and returns the agent's (clipped external) action.
C5_GamepadDeadzone ==
    C5_Case => /\ ~takeover
               /\ last.result = "return" /\ last.source = "agent"
               /\ last.action = ClipAction(last.ext.action)

\* C5, witness: the raw action is exactly on the deadzone
C5_Witness == C5_Case /\ SumAbs(last.dev) = JOYSTICK_DEADZONE

\* the case of C6: a brake-suppressing class returns a device-sourced
\* action whose device action has a negative second channel
C6_Case ==
    /\ policy \in {"TakeoverPolicyWithoutBrake", "PHIPolicy"}
    /\ last.op = "act" /\ last.result = "return"
    /\ takeover /\ last.source = "device"
    /\ last.dev[2] < 0

C7_AlwaysFlips ==
    [][last'.op = "toggle_takeover" => expert_takeover' # expert_takeover]_vars

\* the calls of toggle_takeover a step makes: the key event is one; a tick
\* calls it from process_others and from the expert's failure
C7_Calls ==
    IF last'.op = "toggle_takeover" THEN 1
    ELSE (IF last'.key THEN 1 ELSE 0) + (IF last'.expert_error THEN 1 ELSE 0)

\* C7, amended: a call of toggle_takeover flips the tracked agent's
\* expert_takeover exactly once and no other flag (two calls in one tick
\* cancel); when no agent is tracked it changes nothing.
C7_FlipsTracked ==
    [][(policy = "ManualControlPolicy" /\ last'.op \in {"toggle_takeover", "act"}) =>
         IF current_track_agent \in Agents /\ C7_Calls = 1
         THEN expert_takeover' =
                [expert_takeover EXCEPT ![current_track_agent] =
                                            ~expert_takeover[current_track_agent]]
         ELSE expert_takeover' = expert_takeover]_vars

\* C7, witness: the toggle has just switched a tracked agent back to manual
C7_Witness ==
    /\ last.op = "toggle_takeover"
    /\ current_track_agent \in Agents
    /\ ~expert_takeover[current_track_agent]
    /\ \E a \in Agents : expert_takeover[a]

\* the case of C8: the expert was consulted on the last tick and raised
C8_Case == policy = "ManualControlPolicy" /\ last.op = "act" /\ last.expert_error

\* C8, as claimed: the tick does not raise, ends MANUAL and returns the
\* action of the normal authority determination.
C8_NeverRaises ==
    C8_Case =>
        /\ last.result = "return"
        /\ ~expert_takeover[current_track_agent]
        /\ last.source \in {"device", "agent"}

\* C8, amended: the expert's error is not raised to the caller and the tick
\* ends MANUAL (expert_takeover false); it goes on through the normal
\* authority determination, which returns the device's action or the
\* default action, or raises the action-space validation error of the
\* default policy (action_check on, external action outside the space).
C8_FallsBackToManual ==
    C8_Case =>
        /\ ~expert_takeover[current_track_agent]
        /\ \/ /\ ManualEligible
              /\ last.result = "return" /\ last.source = "device"
              /\ last.action = last.dev
           \/ /\ ~ManualEligible
              /\ last.result = "return" /\ last.source = "agent"
              /\ last.action = ClipAction(last.ext.action)
           \/ /\ ~ManualEligible
              /\ last.result = "AssertionError"
              /\ config.action_check /\ ~InputSpaceContains(last.ext)

\* C8, witness: the expert raised and the device's action was returned
C8_Witness == C8_Case /\ last.result = "return" /\ last.source = "device"

\* C9, as claimed: on a ManualControlPolicy tick that does not return the
\* expert's action, the device's action is returned if manual_control is
\* on, the agent is tracked and the camera is not in bird's-eye view, and
\* otherwise the tick does not fail: it returns the default action (or that
\* policy's own validation error).
C9_DefaultInsteadOfFailing ==
    (policy = "ManualControlPolicy" /\ last.op = "act" /\ last.source # "expert") =>
        /\ last.source = "device" => ManualEligible
        /\ ~ManualEligible =>
              \/ last.result = "return" /\ last.source = "agent"
              \/ last.result = "AssertionError"

\* C10, as claimed: after a call of act that returned, ActionInfo holds the
\* returned action and tells whether it came from the device.
C10_InfoOverwritten ==
    (last.op = "act" /\ last.result = "return") =>
        /\ action_info.action = last.action
        /\ action_info.manual_control =
              (IF last.source = "device" THEN "True" ELSE "False")

\* the constructor has run
ConstructedStep == last.op = "__init__"
\* the name is the word, spelt in any case
SpelledAs(name, word) == \E mode \in CaseModes : name = Recase(word, mode)
\* the name is one of the words, spelt in any case
SpelledAsOneOf(name, words) == \E w \in words : SpelledAs(name, w)

\* C11, as claimed: when the constructor of the requested gamepad or
\* steering wheel fails because the hardware is not available, the policy
\* is constructed all the same: it owns a keyboard device and a warning
\* was emitted.
C11_FallsBackToKeyboard ==
    (ConstructedStep /\ NeedsHardware /\ ~last.available) =>
        /\ last.result = "return"
        /\ controller = "KeyboardController"
        /\ last.warning

\* C12, as claimed: get_controller gives the keyboard for keyboard, the
\* gamepad for xbox, gamepad and joystick, the steering wheel for
\* steering_wheel and wheel, in any case, and raises ValueError for every
\* other name, for which no device (and no None) is returned.
C12_OnlyListedNames ==
    (ConstructedStep /\ ConstructsDevice(policy, config)) =>
        IF SpelledAs(config.controller, Word_keyboard)
        THEN last.device = "KeyboardController"
        ELSE IF SpelledAsOneOf(config.controller, {Word_xbox, Word_gamepad, Word_joystick})
        THEN last.device = "XboxController"
        ELSE IF SpelledAsOneOf(config.controller, {Word_steering_wheel, Word_wheel})
        THEN last.device = "SteeringWheelController"
        ELSE /\ last.result = "ValueError"
             /\ last.device = "none"
             /\ controller = "unset"

\* C12, amended: get_controller selects the keyboard for keyboard, the
\* gamepad for xbox, xboxcontroller, gamepad and joystick, the steering
\* wheel for steering_wheel and wheel, in any case; the device selected is
\* the one the constructor owns when it returns; for every other name
\* ValueError is raised and no device (and no None) is returned.
C12_NameSelectsDevice ==
    (ConstructedStep /\ ConstructsDevice(policy, config)) =>
        /\ last.result = "return" => controller = last.device
        /\ IF SpelledAs(config.controller, Word_keyboard)
           THEN last.device = "KeyboardController"
           ELSE IF SpelledAsOneOf(config.controller,
                       {Word_xbox, Word_xboxcontroller, Word_gamepad, Word_joystick})
           THEN last.device = "XboxController"
           ELSE IF SpelledAsOneOf(config.controller, {Word_steering_wheel, Word_wheel})
           THEN last.device = "SteeringWheelController"
           ELSE /\ last.result = "ValueError"
                /\ last.device = "none"
                /\ controller = "unset"

\* C12, witness: a gamepad was constructed from JOYSTICK
C12_Witness ==
    /\ ConstructedStep /\ ConstructsDevice(policy, config)
    /\ config.controller = Recase(Word_joystick, "UPPER")
    /\ last.result = "return" /\ controller = "XboxController"

\* C13, as claimed: with action_check on, a PHIPolicy tick whose external
\* action is not in the action space raises the validation error and
\* returns no action, whether the tick is MANUAL or AUTONOMOUS.
C13_ValidationErrorRaised ==
    (/\ policy = "PHIPolicy" /\ last.op = "act"
     /\ config.action_check /\ ~InputSpaceContains(last.ext)) =>
        /\ last.result = "AssertionError"
        /\ last.action = <<>>

\* C15: on a PHIPolicy tick that begins AUTONOMOUS (takeover false, or
\* reset because the countdown ran out), takeover is true at the end of the
\* tick exactly when the external record is a dict whose extra flag is
\* true or the draw fires; a bare action alone starts no takeover and the
\* device's action and flags are not consulted.
C15_DecisionFromExtraAndDraw ==
    [][(policy = "PHIPolicy" /\ ActStep /\ BeginsAutonomous) =>
         /\ takeover' = (last'.ext.extra = "True" \/ last'.draw)
         /\ (last'.ext.extra = "none" /\ ~last'.draw) => ~takeover']_vars

\* C15, witness: a tick that began AUTONOMOUS with a bare action and no draw
\* ended AUTONOMOUS and returned the agent's action
C15_Witness ==
    /\ policy = "PHIPolicy" /\ last.op = "act" /\ last.result = "return"
    /\ last.ext.extra = "none" /\ ~last.draw
    /\ ~takeover /\ last.source = "agent"

\* manual control is off, or the agent is not the tracked one, or the camera
\* is in bird's-eye view
GateClosed ==
    \/ ~config.manual_control
    \/ Self # current_track_agent
    \/ main_camera = "bird_view"

\* C16, as claimed: TakeoverPolicy, TakeoverPolicyWithoutBrake and
\* PHIPolicy neither poll the device nor return its action on a tick where
\* manual control is off, the agent is not tracked or the camera is in
\* bird's-eye view; a tick that returns ends AUTONOMOUS and returns the
\* agent's own action.
C16_NoDeviceWhenGated ==
    (/\ policy \in {"TakeoverPolicy", "TakeoverPolicyWithoutBrake", "PHIPolicy"}
     /\ last.op = "act" /\ GateClosed) =>
        /\ last.dev = <<>>
        /\ last.source # "device"
        /\ last.result = "return" => (~takeover /\ last.source = "agent")

\* C17, as claimed: between the ticks of a PHIPolicy the counter is within
\* 0..takeover_steps, it is 0 when takeover is false and at least 1 when
\* takeover is true, and a tick that returns the device's action adds
\* exactly 1 to it.
C17_CounterInvariant ==
    /\ [](policy = "PHIPolicy" =>
            /\ 0 <= current_takeover_last_steps
            /\ current_takeover_last_steps <= takeover_steps
            /\ ~takeover => current_takeover_last_steps = 0
            /\ takeover => current_takeover_last_steps >= 1)
    /\ [][(policy = "PHIPolicy" /\ ActStep /\ last'.source = "device") =>
            current_takeover_last_steps' = current_takeover_last_steps + 1]_vars

C19_FailedTickKeepsState ==
    [][(policy = "PHIPolicy" /\ ActStep /\ last'.result = "AssertionError") =>
         UNCHANGED << takeover, current_takeover_last_steps >>]_vars

\* C20, as claimed: ManualControlPolicy.act, called for an agent that is
\* not the tracked one, returns neither the device's action nor the
\* expert's action for the tracked agent; what it returns is the agent's
\* own external action.
C20_OwnActionWhenNotTracked ==
    (/\ policy = "ManualControlPolicy" /\ last.op = "act"
     /\ Self # current_track_agent) =>
        /\ last.source \notin {"device", "expert"}
        /\ last.result = "return" => last.source = "agent"

\* C14, as claimed: every draw of a PHIPolicy is the draw a generator
\* owned by the policy and seeded with its seed gives, whatever other
\* PHIPolicy instances were constructed or ticked in between.
C14_DrawsFromOwnGenerator ==
    [][(policy = "PHIPolicy" /\ ActStep /\ BeginsAutonomous) =>
         last'.draw = RandFires(RandNext(own_random))]_vars

====
